---- MODULE Spec2Model ----
(***************************************************************************)
(* Log parsing, track reconstruction, range-Doppler grid building and      *)
(* notch-maneuver analysis of the FMCW radar visualizers:                  *)
(*   src/model/ADR_visualize.py    (variant "model")                       *)
(*   src/rtl/src/ADR_visualize.py  (variant "rtl")                         *)
(*   src/model/visualize_rdm.py    (load_rdm)                              *)
(* Text is modelled as sequences of one-character strings, so that         *)
(* strip/split/startswith/int are computed, not assumed.                   *)
(***************************************************************************)
EXTENDS Integers, Sequences, FiniteSets, TLC

VARIABLES
    variant,       \* which copy of ADR_visualize.py runs: "model" or "rtl"
    log,           \* the lines of the track log read so far (file prefix)
    tracks,        \* load_tracks: dict trk_id -> Track
    order,         \* insertion order of the dict keys (tracks.items() order)
    scan_counts,   \* load_tracks: list of active counts
    current_scan,  \* load_tracks: scan counter
    q,             \* load_tracks: the local q ([bound, val]); unbound at entry
    pc,            \* load_tracks: "loop", "raised" or "returned"
    exc,           \* the exception that ended load_tracks ("" when none)
    builder,       \* which grid builder runs
    is_quick,      \* main: "quick" in the file names
    scan_idx,      \* plot_rdm_with_tracks: [some, k]; some = FALSE is None
    det_log,       \* the lines of the detection log read so far
    detections,    \* the loaded detection rows <<r, d, mag>>
    rdm,           \* the grid, sparse: index pair -> value, absent = 0
    fold_i,        \* number of rows of scan_dets the loop has consumed
    det_pc,        \* "load", "fold", "done" or "raised"
    an_i,          \* analyze_notch_performance: tracks visited so far
    report,        \* analyze_notch_performance: one entry per reported track
    an_pc,         \* "idle", "loop" or "done"
    prev,          \* the call that ended before this one: function, input, result
    blocks         \* a long detection array as runs of equal rows: [row, n]

loadVars  == <<variant, log, tracks, order, scan_counts, current_scan, q, pc, exc>>
gridVars  == <<builder, is_quick, scan_idx, det_log, detections, rdm, fold_i, det_pc>>
notchVars == <<an_i, report, an_pc>>
runVars   == <<prev>>
chunkVars == <<blocks>>
vars == <<variant, log, tracks, order, scan_counts, current_scan, q, pc, exc,
          builder, is_quick, scan_idx, det_log, detections, rdm, fold_i, det_pc,
          an_i, report, an_pc, prev, blocks>>

(***************************************************************************)
(* Bounds of the model                                                     *)
(***************************************************************************)
MaxLines == 3      \* lines of a track log
MaxDets == 3       \* lines of a detection log
MaxSamples == 5    \* TRK lines for track 1 in a log that spans the notch window
MaxOther == 1      \* TRK lines for track 2 in such a log; they open the log
MaxBlocks == 3     \* runs of equal rows in a detection array longer than one chunk

(***************************************************************************)
(* Program constants                                                       *)
(***************************************************************************)
N_RANGE == 1024
N_DOPPLER == 128
N_RANGE_QUICK == 128
N_DOPPLER_QUICK == 32
SCAN_RATE == 2
NOTCH_TIME == 30
NOTCH_LEN == 10           \* the literal 10 of NOTCH_TIME + 10
MIN_SAMPLES == 5          \* the literal 5 of len(trk.scans) < 5
PRF0 == 8000              \* PRF_HZ[0]

(***************************************************************************)
(* Text: str.strip, str.split, str.startswith, int                        *)
(***************************************************************************)
WS == {" ", "\t", "\n"}
DigitChars == <<"0", "1", "2", "3", "4", "5", "6", "7", "8", "9">>
IsDigit(c) == \E i \in 1..10 : DigitChars[i] = c
DigitVal(c) == (CHOOSE i \in 1..10 : DigitChars[i] = c) - 1

RECURSIVE LStrip(_)
LStrip(s) == IF s # <<>> /\ Head(s) \in WS THEN LStrip(Tail(s)) ELSE s

RECURSIVE RStrip(_)
RStrip(s) ==
    IF s # <<>> /\ s[Len(s)] \in WS THEN RStrip(SubSeq(s, 1, Len(s) - 1)) ELSE s

\* line.strip()
Strip(s) == RStrip(LStrip(s))

RECURSIVE SplitRun(_, _, _)
SplitRun(s, cur, acc) ==
    IF s = <<>> THEN (IF cur = <<>> THEN acc ELSE Append(acc, cur))
    ELSE IF Head(s) \in WS
         THEN SplitRun(Tail(s), <<>>, IF cur = <<>> THEN acc ELSE Append(acc, cur))
         ELSE SplitRun(Tail(s), Append(cur, Head(s)), acc)

\* s.split(): the maximal runs of non-whitespace characters
Split(s) == SplitRun(s, <<>>, <<>>)

RECURSIVE SplitSep(_, _, _, _)
SplitSep(s, sep, cur, acc) ==
    IF s = <<>> THEN Append(acc, cur)
    ELSE IF Head(s) = sep
         THEN SplitSep(Tail(s), sep, <<>>, Append(acc, cur))
         ELSE SplitSep(Tail(s), sep, Append(cur, Head(s)), acc)

\* s.split(sep) for a one-character separator: always at least one piece
SplitOn(s, sep) == SplitSep(s, sep, <<>>, <<>>)

\* s.startswith(prefix)
StartsWith(s, prefix) ==
    Len(s) >= Len(prefix) /\ SubSeq(s, 1, Len(prefix)) = prefix

RECURSIVE DigitsVal(_, _)
DigitsVal(s, acc) ==
    IF s = <<>> THEN acc ELSE DigitsVal(Tail(s), 10 * acc + DigitVal(Head(s)))

\* int(s) for a token (no inner whitespace, no underscore in the alphabet):
\* an optional sign and one or more decimal digits, else ValueError
PyInt(s) ==
    LET signed == s # <<>> /\ Head(s) \in {"+", "-"}
        body == IF signed THEN Tail(s) ELSE s
        sign == IF signed /\ Head(s) = "-" THEN -1 ELSE 1
    IN  IF body # <<>> /\ \A i \in 1..Len(body) : IsDigit(body[i])
        THEN [ok |-> TRUE, exc |-> "", val |-> sign * DigitsVal(body, 0)]
        ELSE [ok |-> FALSE, exc |-> "ValueError", val |-> 0]

IndexError == [ok |-> FALSE, exc |-> "IndexError", val |-> 0]

\* int(p.split('=')[1])
FieldInt(p) ==
    LET pieces == SplitOn(p, "=")
    IN  IF Len(pieces) < 2 THEN IndexError ELSE PyInt(pieces[2])

\* int(parts[k].split('=')[1]) with Python's 0-based k
PartInt(parts, k) == IF Len(parts) < k + 1 THEN IndexError ELSE FieldInt(parts[k + 1])

(***************************************************************************)
(* Track logs: the lines the model draws from                              *)
(***************************************************************************)
RECURSIVE JoinSp(_)
JoinSp(toks) ==
    IF toks = <<>> THEN <<>>
    ELSE IF Len(toks) = 1 THEN toks[1]
    ELSE toks[1] \o <<" ">> \o JoinSp(Tail(toks))

kTRK == <<"T", "R", "K">>
kSCAN_END == <<"S", "C", "A", "N", "_", "E", "N", "D">>
n1 == <<"1">>
n2 == <<"2">>
R400 == <<"R", "=", "4", "0", "0">>
R404 == <<"R", "=", "4", "0", "4">>
D68 == <<"D", "=", "6", "8">>
D70 == <<"D", "=", "7", "0">>
Q10 == <<"Q", "=", "1", "0">>
Q9 == <<"Q", "=", "9">>
VRm12 == <<"V", "R", "=", "-", "1", "2">>
S1 == <<"S", "=", "1">>

L_Trk1a == JoinSp(<<kTRK, n1, R400, D68, Q10>>) \o <<"\n">>
L_Trk1b == JoinSp(<<kTRK, n1, R404, D70, Q9>>) \o <<"\n">>
L_Trk1Long == JoinSp(<<kTRK, n1, R400, D68, VRm12, Q10, S1>>) \o <<"\n">>
L_Trk2NoQ4 == JoinSp(<<kTRK, n2, R400, D68>>) \o <<"\n">>
L_Trk2NoQ5 == JoinSp(<<kTRK, n2, R404, D70, S1>>) \o <<"\n">>
L_Scan6 == JoinSp(<<kSCAN_END, <<"S", "=", "6">> >>) \o <<"\n">>
L_Scan4 == JoinSp(<<kSCAN_END, <<"a", "c", "t", "i", "v", "e", "=", "4">> >>)
L_Empty == <<"\n">>
L_Blank == <<" ", "\t", "\n">>
L_Other == <<"#", " ", "s", "c", "a", "n">>
L_TrkOnly == kTRK
L_TrkBadId == JoinSp(<<kTRK, <<"x">>, R400, D68, Q10>>)
L_TrkShort == JoinSp(<<kTRK, n2, R400>>)
L_TrkNoEq == JoinSp(<<kTRK, n2, <<"R", "4", "0", "0">>, D68, Q10>>)
L_TrkBadR == JoinSp(<<kTRK, n2, <<"R", "=", "4", "x">>, D68, Q10>>)
L_TrkBadQ == JoinSp(<<kTRK, n2, R400, D68, <<"Q", "=", "z">> >>)
L_ScanOnly == kSCAN_END
L_ScanBad == JoinSp(<<kSCAN_END, <<"S", "=", "x">> >>)

\* long-form lines of a log that spans the notch window; the model copy reads
\* D as a bin (70 -> +18.75 m/s, 57 -> -21.875 m/s), the rtl copy reads it as Q2
\* (280 -> bin 70.0, 228 -> bin 57.0)
L_NotchA == JoinSp(<<kTRK, n1, R400, D70, VRm12, Q10, S1>>)
L_NotchB == JoinSp(<<kTRK, n1, R404, <<"D", "=", "5", "7">>, VRm12, Q9, S1>>)
L_NotchC == JoinSp(<<kTRK, n1, R400, <<"D", "=", "2", "8", "0">>, VRm12, Q10, S1>>)
L_NotchD == JoinSp(<<kTRK, n1, R404, <<"D", "=", "2", "2", "8">>, VRm12, Q9, S1>>)
L_NotchE == JoinSp(<<kTRK, n2, R404, D70, VRm12, Q9, S1>>)

\* the input alphabet; a log is a sequence of indices into LineBook
LineBook == <<L_Trk1a, L_Trk1b, L_Trk1Long, L_Trk2NoQ4, L_Trk2NoQ5, L_Scan6, L_Scan4,
              L_Empty, L_Blank, L_Other, L_TrkOnly, L_TrkBadId, L_TrkShort,
              L_TrkNoEq, L_TrkBadR, L_TrkBadQ, L_ScanOnly, L_ScanBad,
              L_NotchA, L_NotchB, L_NotchC, L_NotchD, L_NotchE>>
Ix(text) == CHOOSE i \in DOMAIN LineBook : LineBook[i] = text
Lines == 1..18
NotchLines(v) == IF v = "model" THEN {Ix(L_NotchA), Ix(L_NotchB), Ix(L_NotchE)}
                 ELSE {Ix(L_NotchC), Ix(L_NotchD), Ix(L_NotchE)}

\* parts = line.strip().split(), for every line of the alphabet
PartsOf == [i \in DOMAIN LineBook |-> Split(Strip(LineBook[i]))]

(***************************************************************************)
(* load_tracks                                                             *)
(***************************************************************************)
Variants == {"model", "rtl"}

\* Track(id=trk_id): five empty lists
NewTrack(id) == [id |-> id, range_bins |-> <<>>, doppler_bins |-> <<>>,
                 velocities |-> <<>>, qualities |-> <<>>, scans |-> <<>>]

Unbound == [bound |-> FALSE, val |-> 0]
BoundTo(v) == [bound |-> TRUE, val |-> v]

\* the state of one load_tracks call, as a record
LoadState == [tracks |-> tracks, order |-> order, scan_counts |-> scan_counts,
              current_scan |-> current_scan, q |-> q, pc |-> pc, exc |-> exc]

\* an exception leaves the function: nothing after the raising statement runs
Raise(st, e) == [st EXCEPT !.pc = "raised", !.exc = e]

\* (mutant) the membership test is left out: every TRK line starts a new Track
Lookup_Reset(st, id) ==
    [st EXCEPT !.tracks = (id :> NewTrack(id)) @@ @,
               !.order = IF id \in DOMAIN st.tracks THEN @ ELSE Append(@, id)]

\* if trk_id not in tracks: tracks[trk_id] = Track(id=trk_id)
Lookup(st, id) ==
    IF id \in DOMAIN st.tracks THEN st
    ELSE [st EXCEPT !.tracks = @ @@ (id :> NewTrack(id)), !.order = Append(@, id)]

\* q = 0; for p in parts[4:]: if p.startswith('Q='): q = int(p.split('=')[1]); break
RECURSIVE FindQ(_)
FindQ(rest) ==
    IF rest = <<>> THEN [ok |-> TRUE, exc |-> "", val |-> 0]
    ELSE IF StartsWith(Head(rest), <<"Q", "=">>) THEN FieldInt(Head(rest))
    ELSE FindQ(Tail(rest))

\* (mutant) the sample is tagged with the next scan, not the current one
ScanTag_Next(st) == st.current_scan + 1

\* the value appended to scans
ScanTag(st) == st.current_scan

\* the four appends of the model copy, in the order of the source; q is read at
\* the third one, after range_bins and doppler_bins have grown
AppendModel(st, id, r, d) ==
    LET t2 == [st.tracks[id] EXCEPT !.range_bins = Append(@, r),
                                    !.doppler_bins = Append(@, d)]
    IN  IF ~st.q.bound
        THEN Raise([st EXCEPT !.tracks[id] = t2], "UnboundLocalError")
        ELSE [st EXCEPT !.tracks[id] =
                 [t2 EXCEPT !.qualities = Append(@, st.q.val),
                            !.scans = Append(@, ScanTag(st))]]

\* what the branches read from parts: the token count, parts[0], and the value
\* or the exception of each expression the source evaluates on the tokens
Fields(parts) ==
    [n |-> Len(parts),
     kind |-> IF parts = <<>> THEN "blank"
              ELSE IF parts[1] = kTRK THEN "TRK"
              ELSE IF parts[1] = kSCAN_END THEN "SCAN_END"
              ELSE "other",
     tid |-> IF Len(parts) < 2 THEN IndexError ELSE PyInt(parts[2]),
     r |-> PartInt(parts, 2),
     d |-> PartInt(parts, 3),
     vr |-> PartInt(parts, 4),
     qv |-> PartInt(parts, 5),
     fq |-> FindQ(SubSeq(parts, 5, Len(parts))),
     active |-> PartInt(parts, 1)]

FieldsOf == [i \in DOMAIN LineBook |-> Fields(PartsOf[i])]

\* the TRK branch of the model copy
TrkModel(st, f) ==
    IF ~f.tid.ok THEN Raise(st, f.tid.exc)
    ELSE
    LET s1 == Lookup(st, f.tid.val)
        s2 == IF f.n >= 5
              THEN [s1 EXCEPT !.q = BoundTo(IF f.fq.ok THEN f.fq.val ELSE 0)]
              ELSE s1
    IN  IF ~f.r.ok THEN Raise(s1, f.r.exc)
        ELSE IF ~f.d.ok THEN Raise(s1, f.d.exc)
        ELSE IF f.n >= 5 /\ ~f.fq.ok THEN Raise(s2, f.fq.exc)
        ELSE AppendModel(s2, f.tid.val, f.r.val, f.d.val)

\* r / 4.0: the exact quotient, kept as a fraction
Q2(n) == [num |-> n, den |-> 4]

\* the five appends of the rtl copy; every field is parsed before the first one
AppendRtl(st, id, r, d, vr, qv) ==
    [st EXCEPT !.q = BoundTo(qv),
               !.tracks[id] = [@ EXCEPT !.range_bins = Append(@, Q2(r)),
                                        !.doppler_bins = Append(@, Q2(d)),
                                        !.velocities = Append(@, vr),
                                        !.qualities = Append(@, qv),
                                        !.scans = Append(@, ScanTag(st))]]

\* the TRK branch of the rtl copy
TrkRtl(st, f) ==
    IF ~f.tid.ok THEN Raise(st, f.tid.exc)
    ELSE
    LET s1 == Lookup(st, f.tid.val)
    IN  IF ~f.r.ok THEN Raise(s1, f.r.exc)
        ELSE IF ~f.d.ok THEN Raise(s1, f.d.exc)
        ELSE IF ~f.vr.ok THEN Raise(s1, f.vr.exc)
        ELSE IF ~f.qv.ok THEN Raise(s1, f.qv.exc)
        ELSE AppendRtl(s1, f.tid.val, f.r.val, f.d.val, f.vr.val, f.qv.val)

\* (mutant) the counter advances by two
NextScan_Twice(c) == c + 2

\* current_scan += 1
NextScan(c) == c + 1

\* the SCAN_END branch, the same in both copies
ScanEnd(st, f) ==
    IF ~f.active.ok THEN Raise(st, f.active.exc)
    ELSE [st EXCEPT !.scan_counts = Append(@, f.active.val),
                    !.current_scan = NextScan(@)]

\* (mutant) the second branch is an else: every other non-empty line is read
\* as a SCAN_END line
StepLine_ElseScan(v, st, f) ==
    IF f.kind = "TRK" THEN (IF v = "model" THEN TrkModel(st, f) ELSE TrkRtl(st, f))
    ELSE IF f.kind = "blank" THEN st
    ELSE ScanEnd(st, f)

\* one iteration of `for line in f`
StepLine(v, st, f) ==
    IF f.kind = "TRK" THEN (IF v = "model" THEN TrkModel(st, f) ELSE TrkRtl(st, f))
    ELSE IF f.kind = "SCAN_END" THEN ScanEnd(st, f)
    ELSE st

RECURSIVE StepLines(_, _, _, _)
\* n iterations over n equal lines
StepLines(v, st, f, n) ==
    IF n = 0 \/ st.pc # "loop" THEN st
    ELSE StepLines(v, StepLine(v, st, f), f, n - 1)

Repeat(x, n) == [k \in 1..n |-> x]

\* the loop consumes n copies of line i
Consume(i, n) ==
    LET st == StepLines(variant, LoadState, FieldsOf[i], n)
    IN  /\ pc = "loop"
        /\ log' = log \o Repeat(i, n)
        /\ tracks' = st.tracks
        /\ order' = st.order
        /\ scan_counts' = st.scan_counts
        /\ current_scan' = st.current_scan
        /\ q' = st.q
        /\ pc' = st.pc
        /\ exc' = st.exc
        /\ UNCHANGED variant

IsBlank(i) == FieldsOf[i].kind = "blank"
IsTrk(i) == FieldsOf[i].kind = "TRK"
IsScanEnd(i) == FieldsOf[i].kind = "SCAN_END"
IsOther(i) == FieldsOf[i].kind = "other"

InitLoad ==
    /\ variant \in Variants
    /\ log = <<>>
    /\ tracks = <<>>
    /\ order = <<>>
    /\ scan_counts = <<>>
    /\ current_scan = 0
    /\ q = Unbound
    /\ pc = "loop"
    /\ exc = ""

InitGridIdle ==
    /\ builder = "none"
    /\ is_quick = FALSE
    /\ scan_idx = [some |-> FALSE, k |-> 0]
    /\ det_log = <<>>
    /\ detections = <<>>
    /\ rdm = <<>>
    /\ fold_i = 0
    /\ det_pc = "idle"

InitNotchIdle ==
    /\ an_i = 0
    /\ report = <<>>
    /\ an_pc = "idle"

\* no call has ended yet
NoRun == [fn |-> "none", input |-> <<>>, result |-> <<>>]

InitRunIdle ==
    /\ prev = NoRun
    /\ blocks = <<>>

\* if not parts: continue
BlankLine ==
    /\ Len(log) < MaxLines
    /\ \E i \in Lines : IsBlank(i) /\ Consume(i, 1)
    /\ UNCHANGED <<gridVars, notchVars, runVars, chunkVars>>

TrackUpdate ==
    /\ Len(log) < MaxLines
    /\ \E i \in Lines : IsTrk(i) /\ Consume(i, 1)
    /\ UNCHANGED <<gridVars, notchVars, runVars, chunkVars>>

ScanEndLine ==
    /\ Len(log) < MaxLines
    /\ \E i \in Lines : IsScanEnd(i) /\ Consume(i, 1)
    /\ UNCHANGED <<gridVars, notchVars, runVars, chunkVars>>

\* neither branch is taken
OtherLine ==
    /\ Len(log) < MaxLines
    /\ \E i \in Lines : IsOther(i) /\ Consume(i, 1)
    /\ UNCHANGED <<gridVars, notchVars, runVars, chunkVars>>

\* the file does not exist: return {}, []
MissingFile ==
    /\ pc = "loop"
    /\ log = <<>>
    /\ pc' = "returned"
    /\ UNCHANGED <<variant, log, tracks, order, scan_counts, current_scan, q, exc>>
    /\ UNCHANGED <<gridVars, notchVars, runVars, chunkVars>>

\* the file is exhausted: return tracks, scan_counts
EndOfFile ==
    /\ pc = "loop"
    /\ pc' = "returned"
    /\ UNCHANGED <<variant, log, tracks, order, scan_counts, current_scan, q, exc>>
    /\ UNCHANGED <<gridVars, notchVars, runVars, chunkVars>>

(***************************************************************************)
(* Detection logs and the grid builders                                    *)
(***************************************************************************)
RECURSIVE Dec(_)
\* the decimal text of a natural number
Dec(n) == IF n < 10 THEN <<DigitChars[n + 1]>>
          ELSE Dec(n \div 10) \o <<DigitChars[(n % 10) + 1]>>

D_Hi == JoinSp(<<Dec(100), Dec(5), Dec(50)>>) \o <<"\n">>
D_Lo == JoinSp(<<Dec(100), Dec(5), Dec(30)>>) \o <<"\n">>
D_Neg == JoinSp(<<Dec(100), Dec(5), <<"-">> \o Dec(3)>>)
D_RangeOut == JoinSp(<<Dec(N_RANGE), Dec(5), Dec(9)>>)
D_DopplerOut == JoinSp(<<Dec(100), Dec(N_DOPPLER), Dec(7)>>)
D_RangeNeg == JoinSp(<<<<"-">> \o Dec(1), Dec(5), Dec(7)>>)
D_QuickOut == JoinSp(<<Dec(N_RANGE_QUICK), Dec(5), Dec(8)>>)
D_TwoTokens == JoinSp(<<Dec(7), Dec(7)>>)
D_BadInt == JoinSp(<<Dec(1), Dec(2), <<"x">> >>)

DetBook == <<D_Hi, D_Lo, D_Neg, D_RangeOut, D_DopplerOut, D_RangeNeg, D_QuickOut,
             D_TwoTokens, D_BadInt>>
Dx(text) == CHOOSE i \in DOMAIN DetBook : DetBook[i] = text
DetPartsOf == [i \in DOMAIN DetBook |-> Split(Strip(DetBook[i]))]

Builders == {"plot_rdm_with_tracks", "main", "load_rdm"}
None == [some |-> FALSE, k |-> 0]
Some(k) == [some |-> TRUE, k |-> k]

\* the three int() calls of a three-token line
RowOf(parts) == <<PyInt(parts[1]), PyInt(parts[2]), PyInt(parts[3])>>
RowOk(parts) == \A j \in 1..3 : RowOf(parts)[j].ok
RowVal(parts) == <<RowOf(parts)[1].val, RowOf(parts)[2].val, RowOf(parts)[3].val>>

\* load_detections: a line of exactly three tokens becomes a row, any other line
\* is passed over; int() raises on a token that is no integer
LoadDetectionsLine(parts) ==
    IF Len(parts) # 3 THEN [pc |-> "load", rows |-> <<>>]
    ELSE IF ~RowOk(parts) THEN [pc |-> "raised", rows |-> <<>>]
    ELSE [pc |-> "load", rows |-> <<RowVal(parts)>>]

\* np.loadtxt(filepath, dtype=int): every non-blank line is a row of integers,
\* here of three columns; any other line makes loadtxt (or row[2]) raise
LoadTxtLine(parts) ==
    IF parts = <<>> THEN [pc |-> "load", rows |-> <<>>]
    ELSE IF Len(parts) # 3 \/ ~RowOk(parts) THEN [pc |-> "raised", rows |-> <<>>]
    ELSE [pc |-> "load", rows |-> <<RowVal(parts)>>]

\* the shape of np.zeros(...) as (first index, second index)
Shape(b, quick) ==
    IF b = "load_rdm" THEN <<N_RANGE, N_DOPPLER>>
    ELSE IF b = "main" /\ quick THEN <<N_DOPPLER_QUICK, N_RANGE_QUICK>>
    ELSE <<N_DOPPLER, N_RANGE>>

\* the range and Doppler sizes the guard compares with
RangeSize(b, quick) == IF b = "main" /\ quick THEN N_RANGE_QUICK ELSE N_RANGE
DopplerSize(b, quick) == IF b = "main" /\ quick THEN N_DOPPLER_QUICK ELSE N_DOPPLER

\* 0 <= r < N_RANGE and 0 <= d < N_DOPPLER
InGrid(r, d, nr, nd) == 0 <= r /\ r < nr /\ 0 <= d /\ d < nd

\* the index the builder writes: rdm[int(d), int(r)], or rdm[r, d] in load_rdm
CellIndex(b, r, d) == IF b = "load_rdm" THEN <<r, d>> ELSE <<d, r>>

\* the grid is np.zeros: a cell that was never written, or holds 0, is absent
Cell(g, idx) == IF idx \in DOMAIN g THEN g[idx] ELSE 0
Put(g, idx, v) ==
    LET dom == IF v = 0 THEN DOMAIN g \ {idx} ELSE DOMAIN g \cup {idx}
    IN  [x \in dom |-> IF x = idx THEN v ELSE g[x]]

\* (mutant) the comparison is turned around: a min-hold
MaxHold_Min(old, mag) == IF mag < old THEN mag ELSE old

\* max(rdm[int(d), int(r)], mag)
MaxHold(old, mag) == IF mag > old THEN mag ELSE old

\* rdm[r, d] = mag
Overwrite(old, mag) == mag

\* the value the builder stores in the cell
NewCell(b, old, mag) == IF b = "load_rdm" THEN Overwrite(old, mag) ELSE MaxHold(old, mag)

Min(a, b) == IF a < b THEN a ELSE b

\* detections[start:end] with 0 <= start
Slice(seq, start, end) ==
    IF start >= Min(end, Len(seq)) THEN <<>> ELSE SubSeq(seq, start + 1, Min(end, Len(seq)))

\* the rows the loop runs over
ScanDets ==
    IF builder = "plot_rdm_with_tracks" /\ scan_idx.some
    THEN LET samples_per_scan == N_RANGE * N_DOPPLER
             start == scan_idx.k * samples_per_scan
         IN  Slice(detections, start, Min(start + samples_per_scan, Len(detections)))
    ELSE detections

InitGrid ==
    /\ builder \in Builders
    /\ is_quick \in BOOLEAN
    /\ scan_idx \in {None, Some(0), Some(1)}
    /\ builder # "main" => ~is_quick
    /\ builder # "plot_rdm_with_tracks" => scan_idx = None
    /\ det_log = <<>>
    /\ detections = <<>>
    /\ rdm = <<>>
    /\ fold_i = 0
    /\ det_pc = "load"

InitLoadIdle ==
    /\ variant = "model"
    /\ log = <<>>
    /\ tracks = <<>>
    /\ order = <<>>
    /\ scan_counts = <<>>
    /\ current_scan = 0
    /\ q = Unbound
    /\ pc = "idle"
    /\ exc = ""

\* line i of the alphabet is read from the detection log
ReadDetection(i) ==
    LET got == IF builder = "load_rdm" THEN LoadTxtLine(DetPartsOf[i])
               ELSE LoadDetectionsLine(DetPartsOf[i])
    IN  /\ det_pc = "load"
        /\ Len(det_log) < MaxDets
        /\ det_log' = Append(det_log, i)
        /\ detections' = detections \o got.rows
        /\ det_pc' = got.pc
        /\ UNCHANGED <<builder, is_quick, scan_idx, rdm, fold_i>>

\* one line of the detection log is read
LoadDetection ==
    /\ \E i \in DOMAIN DetBook : ReadDetection(i)
    /\ UNCHANGED <<loadVars, notchVars, runVars, chunkVars>>

\* the detection log is exhausted; the builder starts from np.zeros
EndOfDetections ==
    /\ det_pc = "load"
    /\ det_pc' = "fold"
    /\ UNCHANGED <<builder, is_quick, scan_idx, det_log, detections, rdm, fold_i>>
    /\ UNCHANGED <<loadVars, notchVars, runVars, chunkVars>>

\* np.loadtxt squeezes a one-row file to a 1-D array, so `for row in data`
\* yields scalars and row[0] raises IndexError
ScalarRows == builder = "load_rdm" /\ Len(detections) = 1

\* one iteration of the builder's loop
FoldDetection ==
    /\ det_pc = "fold"
    /\ fold_i < Len(ScanDets)
    /\ ~ScalarRows
    /\ LET row == ScanDets[fold_i + 1]
           r == row[1]
           d == row[2]
           mag == row[3]
           idx == CellIndex(builder, r, d)
       IN  rdm' = IF InGrid(r, d, RangeSize(builder, is_quick), DopplerSize(builder, is_quick))
                  THEN Put(rdm, idx, NewCell(builder, Cell(rdm, idx), mag))
                  ELSE rdm
    /\ fold_i' = fold_i + 1
    /\ UNCHANGED <<builder, is_quick, scan_idx, det_log, detections, det_pc>>
    /\ UNCHANGED <<loadVars, notchVars, runVars, chunkVars>>

FoldScalarRow ==
    /\ det_pc = "fold"
    /\ fold_i < Len(ScanDets)
    /\ ScalarRows
    /\ det_pc' = "raised"
    /\ UNCHANGED <<builder, is_quick, scan_idx, det_log, detections, rdm, fold_i>>
    /\ UNCHANGED <<loadVars, notchVars, runVars, chunkVars>>

\* the loop ends
FoldDone ==
    /\ det_pc = "fold"
    /\ fold_i = Len(ScanDets)
    /\ det_pc' = "done"
    /\ UNCHANGED <<builder, is_quick, scan_idx, det_log, detections, rdm, fold_i>>
    /\ UNCHANGED <<loadVars, notchVars, runVars, chunkVars>>

NextGrid == LoadDetection \/ EndOfDetections \/ FoldDetection \/ FoldScalarRow \/ FoldDone

InitG == InitLoadIdle /\ InitGrid /\ InitNotchIdle /\ InitRunIdle

SpecGrid == InitG /\ [][NextGrid]_vars

Init == InitLoad /\ InitGridIdle /\ InitNotchIdle /\ InitRunIdle

Next == BlankLine \/ TrackUpdate \/ ScanEndLine \/ OtherLine \/ MissingFile \/ EndOfFile

Spec == Init /\ [][Next]_vars

(***************************************************************************)
(* analyze_notch_performance                                               *)
(***************************************************************************)
WAVELENGTH_MM == 100      \* WAVELENGTH_M = 0.1, in millimetres

\* int(NOTCH_TIME * SCAN_RATE) and int((NOTCH_TIME + 10) * SCAN_RATE)
notch_start_scan == NOTCH_TIME * SCAN_RATE
notch_end_scan == (NOTCH_TIME + NOTCH_LEN) * SCAN_RATE

\* scans < notch_start_scan
PreNotch(sc) == sc < notch_start_scan

\* (mutant) the upper comparison is strict: scan notch_end_scan is in no window
DuringNotch_Open(sc) == sc >= notch_start_scan /\ sc < notch_end_scan

\* (scans >= notch_start_scan) & (scans <= notch_end_scan)
DuringNotch(sc) == sc >= notch_start_scan /\ sc <= notch_end_scan

\* (mutant) the comparison is not strict: scan notch_end_scan counts as post
PostNotch_Ge(sc) == sc >= notch_end_scan

\* scans > notch_end_scan
PostNotch(sc) == sc > notch_end_scan

\* the boolean masks, as the sets of sample indices they select
PreIdx(trk) == {k \in 1..Len(trk.scans) : PreNotch(trk.scans[k])}
DuringIdx(trk) == {k \in 1..Len(trk.scans) : DuringNotch(trk.scans[k])}
PostIdx(trk) == {k \in 1..Len(trk.scans) : PostNotch(trk.scans[k])}

\* (mutant) a track of exactly five samples is passed over too
TooShort_Le(trk) == Len(trk.scans) <= MIN_SAMPLES

\* len(trk.scans) < 5
TooShort(trk) == Len(trk.scans) < MIN_SAMPLES

RECURSIVE SumOver(_, _)
SumOver(f, S) ==
    IF S = {} THEN 0
    ELSE LET k == CHOOSE x \in S : TRUE IN f[k] + SumOver(f, S \ {k})

\* np.mean(values[mask]) as the exact fraction sum / n
Mean(f, S) == [sum |-> SumOver(f, S), n |-> Cardinality(S)]
NoMean == [sum |-> 0, n |-> 0]

\* a stored Doppler bin in quarter bins: an integer bin in the model copy, d / 4.0
\* in the rtl copy
QuarterBins(d) == IF variant = "model" THEN 4 * d ELSE d.num

\* bin_to_velocity_mps(d) = (d - N_DOPPLER/2) * PRF_HZ[0] / N_DOPPLER * 0.1 / 2.0,
\* as the exact fraction VelNum / VelDen metres per second
VelDen == 4 * N_DOPPLER * 1000 * 2
VelNum(d) == (QuarterBins(d) - 2 * N_DOPPLER) * PRF0 * WAVELENGTH_MM

Abs(x) == IF x < 0 THEN -x ELSE x

\* (mutant) the absolute value is left out
InNotch_Signed(trk, during) ==
    \E k \in during : VelNum(trk.doppler_bins[k]) < 20 * VelDen

\* np.abs(vels[during_notch]) < 20, any()
InNotch(trk, during) ==
    \E k \in during : Abs(VelNum(trk.doppler_bins[k])) < 20 * VelDen

\* what the loop body prints for one included track
Entry(trk) ==
    LET pre == PreIdx(trk)
        during == DuringIdx(trk)
        post == PostIdx(trk)
        vnum == [k \in 1..Len(trk.doppler_bins) |-> VelNum(trk.doppler_bins[k])]
    IN  [id |-> trk.id,
         pre |-> pre, during |-> during, post |-> post,
         lines |->
             <<"Track", "Pre-notch quality">>
             \o (IF during # {}
                 THEN <<"During notch quality", "During notch velocity">>
                      \o (IF InNotch(trk, during) THEN <<"entered MTI notch">> ELSE <<>>)
                 ELSE <<"LOST">>)
             \o (IF post # {} THEN <<"Post-notch quality">> ELSE <<"NOT RECOVERED">>),
         pre_quality |-> Mean(trk.qualities, pre),
         during_quality |-> IF during # {} THEN Mean(trk.qualities, during) ELSE NoMean,
         during_velocity |-> IF during # {} THEN Mean(vnum, during) ELSE NoMean,
         post_quality |-> IF post # {} THEN Mean(trk.qualities, post) ELSE NoMean]

\* the scan counts at which the notch log places its TRK lines
ScanStops == {0, notch_start_scan - 1, notch_start_scan, notch_end_scan, notch_end_scan + 1}
NextStop(c) == CHOOSE n \in ScanStops : n > c /\ \A m \in ScanStops : m > c => n <= m

\* the TRK lines read so far for track id (each one appended to range_bins)
SamplesOf(id) == IF id \in DOMAIN tracks THEN Len(tracks[id].range_bins) ELSE 0

\* a TRK line of the notch log is read
NotchTrackUpdate ==
    /\ \E i \in NotchLines(variant) :
          /\ IF i = Ix(L_NotchE)
             THEN SamplesOf(2) < MaxOther /\ SamplesOf(1) = 0 /\ current_scan = 0
             ELSE SamplesOf(1) < MaxSamples
          /\ Consume(i, 1)
    /\ UNCHANGED <<gridVars, notchVars, runVars, chunkVars>>

\* the SCAN_END lines up to the next stop are read, one loop iteration each
NotchScanEnds ==
    /\ \E n \in ScanStops : n > current_scan
    /\ Consume(Ix(L_Scan6), NextStop(current_scan) - current_scan)
    /\ UNCHANGED <<gridVars, notchVars, runVars, chunkVars>>

\* analyze_notch_performance(tracks) is called with what load_tracks returned
StartAnalysis ==
    /\ pc = "returned"
    /\ an_pc = "idle"
    /\ an_pc' = "loop"
    /\ UNCHANGED <<an_i, report>>
    /\ UNCHANGED <<loadVars, gridVars, runVars, chunkVars>>

\* the track tracks.items() yields next
NextTrack == tracks[order[an_i + 1]]

\* if len(trk.scans) < 5: continue
AnalyzeSkipShort ==
    /\ an_pc = "loop"
    /\ an_i < Len(order)
    /\ TooShort(NextTrack)
    /\ an_i' = an_i + 1
    /\ UNCHANGED <<report, an_pc>>
    /\ UNCHANGED <<loadVars, gridVars, runVars, chunkVars>>

\* if not any(pre_notch): continue
AnalyzeSkipNoPre ==
    /\ an_pc = "loop"
    /\ an_i < Len(order)
    /\ ~TooShort(NextTrack)
    /\ PreIdx(NextTrack) = {}
    /\ an_i' = an_i + 1
    /\ UNCHANGED <<report, an_pc>>
    /\ UNCHANGED <<loadVars, gridVars, runVars, chunkVars>>

\* the track is reported
AnalyzeReport ==
    /\ an_pc = "loop"
    /\ an_i < Len(order)
    /\ ~TooShort(NextTrack)
    /\ PreIdx(NextTrack) # {}
    /\ report' = Append(report, Entry(NextTrack))
    /\ an_i' = an_i + 1
    /\ UNCHANGED an_pc
    /\ UNCHANGED <<loadVars, gridVars, runVars, chunkVars>>

\* the loop over tracks.items() ends
AnalyzeDone ==
    /\ an_pc = "loop"
    /\ an_i = Len(order)
    /\ an_pc' = "done"
    /\ UNCHANGED <<an_i, report>>
    /\ UNCHANGED <<loadVars, gridVars, runVars, chunkVars>>

NextNotch ==
    \/ NotchTrackUpdate \/ NotchScanEnds \/ EndOfFile \/ StartAnalysis
    \/ AnalyzeSkipShort \/ AnalyzeSkipNoPre \/ AnalyzeReport \/ AnalyzeDone

SpecNotch == Init /\ [][NextNotch]_vars

(***************************************************************************)
(* One call after another: load_tracks and the grid builders are functions  *)
(* whose state is local, so every call starts from the values its first     *)
(* statements assign                                                       *)
(***************************************************************************)
\* the lines and detection rows the repeated calls draw from
RunLines == {Ix(L_Trk1a), Ix(L_Trk2NoQ4), Ix(L_Scan6)}
RunDets == {Dx(D_Hi), Dx(D_Lo)}

\* the call in progress: its function, its input and what it has produced
LoadRun == [fn |-> "load_tracks", input |-> <<variant, log>>,
            result |-> [tracks |-> tracks, order |-> order,
                        scan_counts |-> scan_counts, pc |-> pc, exc |-> exc]]
GridRun == [fn |-> builder, input |-> <<is_quick, scan_idx, det_log>>,
            result |-> [rdm |-> rdm, det_pc |-> det_pc]]
CurrentRun == IF pc # "idle" THEN LoadRun ELSE GridRun

\* the call has returned or raised
RunFinished == pc \in {"returned", "raised"} \/ det_pc \in {"done", "raised"}

\* (mutant) the registry is a module-level dict that outlives the call
FreshRegistry_Kept(old) == old

\* tracks = {}: a new dict in every call
FreshRegistry(old) == <<>>

\* a line of the track log is read
RunLine ==
    /\ Len(log) < MaxLines
    /\ \E i \in RunLines : Consume(i, 1)
    /\ UNCHANGED <<gridVars, notchVars, runVars, chunkVars>>

\* a line of the detection log is read
RunDetection ==
    /\ \E i \in RunDets : ReadDetection(i)
    /\ UNCHANGED <<loadVars, notchVars, runVars, chunkVars>>

\* load_tracks is called again: new locals, q unbound in the new frame
RerunLoad ==
    /\ RunFinished
    /\ prev' = CurrentRun
    /\ variant' \in Variants
    /\ log' = <<>>
    /\ tracks' = FreshRegistry(tracks)
    /\ order' = <<>>
    /\ scan_counts' = <<>>
    /\ current_scan' = 0
    /\ q' = Unbound
    /\ pc' = "loop"
    /\ exc' = ""
    /\ builder' = "none"
    /\ is_quick' = FALSE
    /\ scan_idx' = None
    /\ det_log' = <<>>
    /\ detections' = <<>>
    /\ rdm' = <<>>
    /\ fold_i' = 0
    /\ det_pc' = "idle"
    /\ UNCHANGED <<notchVars, chunkVars>>

\* a grid builder is called again: detections = [] and rdm = np.zeros(...)
RerunGrid ==
    /\ RunFinished
    /\ prev' = CurrentRun
    /\ variant' = "model"
    /\ log' = <<>>
    /\ tracks' = <<>>
    /\ order' = <<>>
    /\ scan_counts' = <<>>
    /\ current_scan' = 0
    /\ q' = Unbound
    /\ pc' = "idle"
    /\ exc' = ""
    /\ builder' \in Builders
    /\ is_quick' \in BOOLEAN
    /\ scan_idx' \in {None, Some(0), Some(1)}
    /\ builder' # "main" => ~is_quick'
    /\ builder' # "plot_rdm_with_tracks" => scan_idx' = None
    /\ det_log' = <<>>
    /\ detections' = <<>>
    /\ rdm' = <<>>
    /\ fold_i' = 0
    /\ det_pc' = "load"
    /\ UNCHANGED <<notchVars, chunkVars>>

NextRuns ==
    \/ RunLine \/ MissingFile \/ EndOfFile \/ RerunLoad
    \/ RunDetection \/ EndOfDetections \/ FoldDetection \/ FoldScalarRow \/ FoldDone
    \/ RerunGrid

SpecRuns == Init /\ [][NextRuns]_vars

(***************************************************************************)
(* plot_rdm_with_tracks on detection arrays longer than one chunk: the     *)
(* array is kept as runs of equal rows, blocks[j] = [row, n]                *)
(***************************************************************************)
\* samples_per_scan = N_RANGE * N_DOPPLER
ChunkSize == N_RANGE * N_DOPPLER

\* the lines a run repeats, and the run lengths: they put a row just before,
\* at and just after a chunk boundary
ChunkRows == {Dx(D_Hi), Dx(D_Lo), Dx(D_RangeOut)}
BlockSizes == {1, ChunkSize - 1, ChunkSize}

RECURSIVE BlockLen(_)
\* len(detections)
BlockLen(bs) == IF bs = <<>> THEN 0 ELSE Head(bs).n + BlockLen(Tail(bs))

RECURSIVE SliceBlocks(_, _, _)
\* detections[start:end] for 0 <= start: the rows at positions start <= i < end
\* (positions from 0), an empty array when end <= start
SliceBlocks(bs, start, end) ==
    IF bs = <<>> \/ end <= 0 THEN <<>>
    ELSE LET b == Head(bs)
             lo == IF start > 0 THEN start ELSE 0
             hi == Min(end, b.n)
             rest == SliceBlocks(Tail(bs), start - b.n, end - b.n)
         IN  IF lo < hi THEN <<[row |-> b.row, n |-> hi - lo]>> \o rest ELSE rest

\* (mutant) the chunk start counts rows of one range sweep, not of one scan
ChunkStart_Sweep(k) == k * N_RANGE

\* start = scan_idx * samples_per_scan
ChunkStart(k) == k * ChunkSize

\* scan_dets
ChunkDets ==
    IF scan_idx.some
    THEN LET start == ChunkStart(scan_idx.k)
         IN  SliceBlocks(blocks, start, Min(start + ChunkSize, BlockLen(blocks)))
    ELSE blocks

RECURSIVE FoldRun(_, _, _)
\* n iterations of the loop body on n equal rows; an iteration that leaves the
\* cell as it was is followed only by iterations that do the same
FoldRun(v, mag, n) ==
    IF n = 0 THEN v
    ELSE LET v1 == MaxHold(v, mag)
         IN  IF v1 = v THEN v ELSE FoldRun(v1, mag, n - 1)

InitChunk ==
    /\ InitLoadIdle /\ InitNotchIdle /\ InitRunIdle
    /\ builder = "plot_rdm_with_tracks"
    /\ is_quick = FALSE
    /\ scan_idx \in {None, Some(0), Some(1), Some(2)}
    /\ det_log = <<>>
    /\ detections = <<>>
    /\ rdm = <<>>
    /\ fold_i = 0
    /\ det_pc = "load"

\* load_detections reads n copies of a line: n equal rows
LoadBlock ==
    /\ det_pc = "load"
    /\ Len(blocks) < MaxBlocks
    /\ \E i \in ChunkRows, n \in BlockSizes :
          LET rows == LoadDetectionsLine(DetPartsOf[i]).rows
          IN  blocks' = blocks \o [k \in 1..Len(rows) |-> [row |-> rows[k], n |-> n]]
    /\ UNCHANGED <<gridVars, loadVars, notchVars, runVars>>

\* the loop runs over the next run of equal rows of scan_dets
FoldBlock ==
    /\ det_pc = "fold"
    /\ fold_i < Len(ChunkDets)
    /\ LET b == ChunkDets[fold_i + 1]
           r == b.row[1]
           d == b.row[2]
           mag == b.row[3]
           idx == CellIndex(builder, r, d)
       IN  rdm' = IF InGrid(r, d, RangeSize(builder, is_quick), DopplerSize(builder, is_quick))
                  THEN Put(rdm, idx, FoldRun(Cell(rdm, idx), mag, b.n))
                  ELSE rdm
    /\ fold_i' = fold_i + 1
    /\ UNCHANGED <<builder, is_quick, scan_idx, det_log, detections, det_pc>>
    /\ UNCHANGED <<loadVars, notchVars, runVars, chunkVars>>

\* the loop ends
FoldBlocksDone ==
    /\ det_pc = "fold"
    /\ fold_i = Len(ChunkDets)
    /\ det_pc' = "done"
    /\ UNCHANGED <<builder, is_quick, scan_idx, det_log, detections, rdm, fold_i>>
    /\ UNCHANGED <<loadVars, notchVars, runVars, chunkVars>>

NextChunk == LoadBlock \/ EndOfDetections \/ FoldBlock \/ FoldBlocksDone

SpecChunk == InitChunk /\ [][NextChunk]_vars

(***************************************************************************)
(* Claims about load_tracks (specification Spec)                           *)
(***************************************************************************)
Last(seq) == seq[Len(seq)]

\* the lines whose processing ran to its end
Processed == IF pc = "raised" THEN SubSeq(log, 1, Len(log) - 1) ELSE log

\* C1: after every processed line, and at the moment a line's processing stops
\* by raising, every Track has range_bins, doppler_bins, qualities and scans of
\* one length.
C1_ParallelSeries ==
    \A id \in DOMAIN tracks :
        LET t == tracks[id]
        IN  /\ Len(t.range_bins) = Len(t.doppler_bins)
            /\ Len(t.doppler_bins) = Len(t.qualities)
            /\ Len(t.qualities) = Len(t.scans)

\* the positions in the log of the TRK lines that name track id
TrkPositions(id) ==
    {p \in 1..Len(log) :
        /\ IsTrk(log[p])
        /\ Len(PartsOf[log[p]]) >= 2
        /\ PyInt(PartsOf[log[p]][2]).ok
        /\ PyInt(PartsOf[log[p]][2]).val = id}

\* the position of the k-th TRK line of track id
KthTrk(id, k) ==
    CHOOSE p \in TrkPositions(id) :
        Cardinality({p2 \in TrkPositions(id) : p2 < p}) = k - 1

\* the number of SCAN_END lines before position p
ScanEndsBefore(p) == Cardinality({p2 \in 1..(p - 1) : IsScanEnd(log[p2])})

\* C2: the scan stored with each TRK sample is the number of SCAN_END lines
\* that precede its TRK line in the log; the log TRK 1 R=400, SCAN_END, TRK 1
\* R=404 gives range_bins = [400, 404] and scans = [0, 1].
C2_ScanOfSample ==
    /\ \A id \in DOMAIN tracks :
          \A k \in 1..Len(tracks[id].scans) :
              tracks[id].scans[k] = ScanEndsBefore(KthTrk(id, k))
    /\ (variant = "model" /\ log = <<Ix(L_Trk1a), Ix(L_Scan6), Ix(L_Trk1b)>>)
          => /\ tracks[1].range_bins = <<400, 404>>
             /\ tracks[1].scans = <<0, 1>>

C2_Witness ==
    /\ pc = "returned"
    /\ log = <<Ix(L_Trk1a), Ix(L_Scan6), Ix(L_Trk1b)>>
    /\ tracks[1].scans = <<0, 1>>

RECURSIVE ActiveValues(_)
\* the active counts of the SCAN_END lines of a sequence of lines, in order
ActiveValues(ls) ==
    IF ls = <<>> THEN <<>>
    ELSE IF IsScanEnd(Head(ls))
         THEN <<PartInt(PartsOf[Head(ls)], 1).val>> \o ActiveValues(Tail(ls))
         ELSE ActiveValues(Tail(ls))

\* C3: scan_counts is the sequence of the active counts of the SCAN_END lines
\* in log order, one entry per line, and the scan counter is len(scan_counts) at
\* every step; SCAN_END S=6 then SCAN_END active=4 gives [6, 4] and counter 2.
C3_ScanCounts ==
    /\ scan_counts = ActiveValues(Processed)
    /\ Len(scan_counts) = Cardinality({p \in 1..Len(Processed) : IsScanEnd(log[p])})
    /\ current_scan = Len(scan_counts)
    /\ log = <<Ix(L_Scan6), Ix(L_Scan4)>> => scan_counts = <<6, 4>> /\ current_scan = 2

C3_Witness ==
    /\ pc = "returned"
    /\ log = <<Ix(L_Scan6), Ix(L_Scan4)>>
    /\ scan_counts = <<6, 4>>
    /\ current_scan = 2

\* a TRK or SCAN_END line with too few tokens, a field without '=', or a
\* numeric field that is no integer
Malformed(i) ==
    LET parts == PartsOf[i]
    IN  \/ /\ IsTrk(i)
           /\ \/ Len(parts) < 4
              \/ ~PyInt(parts[2]).ok
              \/ ~FieldInt(parts[3]).ok
              \/ ~FieldInt(parts[4]).ok
              \/ \E k \in 5..Len(parts) :
                    StartsWith(parts[k], <<"Q", "=">>) /\ ~FieldInt(parts[k]).ok
        \/ /\ IsScanEnd(i)
           /\ \/ Len(parts) < 2
              \/ ~FieldInt(parts[2]).ok

\* C10: a malformed line is skipped: it changes no track, no scan_counts entry
\* and not the scan counter, creates no track, and the parse goes on.
C10_MalformedSkipped ==
    [][(pc = "loop" /\ Len(log') = Len(log) + 1 /\ Malformed(Last(log')))
          => /\ tracks' = tracks
             /\ scan_counts' = scan_counts
             /\ current_scan' = current_scan
             /\ pc' = "loop"]_vars

(***************************************************************************)
(* Claims about the grid builders (specification SpecGrid)                 *)
(***************************************************************************)
SetMax(S) == CHOOSE m \in S : \A x \in S : x <= m

\* the rows the loop has folded so far
FoldedRows == 1..fold_i

RowInGrid(j) ==
    InGrid(ScanDets[j][1], ScanDets[j][2],
           RangeSize(builder, is_quick), DopplerSize(builder, is_quick))

\* the magnitudes folded so far at range r, Doppler d
MagsAt(r, d) ==
    {ScanDets[j][3] : j \in {j2 \in FoldedRows :
                                ScanDets[j2][1] = r /\ ScanDets[j2][2] = d}}

MaxHoldBuilder == builder \in {"plot_rdm_with_tracks", "main"}

\* C4 as stated: every cell [d][r] that received an in-range detection holds the
\* maximum magnitude among the detections observed at (r, d), for every
\* integer magnitude.
C4_MaxOfObserved ==
    MaxHoldBuilder =>
        \A j \in FoldedRows :
            RowInGrid(j) =>
                Cell(rdm, <<ScanDets[j][2], ScanDets[j][1]>>)
                    = SetMax(MagsAt(ScanDets[j][1], ScanDets[j][2]))

\* C4 amended: every cell [d][r] that received an in-range detection holds the
\* larger of 0 and the maximum magnitude observed at (r, d); (100, 5, 50) then
\* (100, 5, 30) leaves cell [5][100] = 50.
C4_MaxOfObservedOrZero ==
    MaxHoldBuilder =>
        /\ \A j \in FoldedRows :
              RowInGrid(j) =>
                  Cell(rdm, <<ScanDets[j][2], ScanDets[j][1]>>)
                      = SetMax({0} \cup MagsAt(ScanDets[j][1], ScanDets[j][2]))
        /\ (det_pc = "done" /\ det_log = <<Dx(D_Hi), Dx(D_Lo)>> /\ scan_idx # Some(1))
              => Cell(rdm, <<5, 100>>) = 50

C4_Witness ==
    /\ builder = "plot_rdm_with_tracks"
    /\ det_pc = "done"
    /\ det_log = <<Dx(D_Neg), Dx(D_Hi), Dx(D_Lo)>>
    /\ fold_i = 3
    /\ Cell(rdm, <<5, 100>>) = 50

\* C5: in every grid builder, folding one more detection never lowers the value
\* of any cell.
C5_NeverLowered ==
    [][\A idx \in DOMAIN rdm \cup DOMAIN rdm' : Cell(rdm', idx) >= Cell(rdm, idx)]_vars

\* C6: folding a detection with r or d outside the grid raises no error and
\* leaves every cell unchanged; folding one inside the grid changes at most
\* cell [d][r].
C6_OnlyOwnCell ==
    [][(det_pc = "fold" /\ fold_i < Len(ScanDets))
          => LET r == ScanDets[fold_i + 1][1]
                 d == ScanDets[fold_i + 1][2]
             IN  /\ det_pc' # "raised"
                 /\ ~RowInGrid(fold_i + 1) => rdm' = rdm
                 /\ RowInGrid(fold_i + 1) =>
                       \A idx \in DOMAIN rdm \cup DOMAIN rdm' :
                           idx # <<d, r>> => Cell(rdm', idx) = Cell(rdm, idx)]_vars


(***************************************************************************)
(* Claims about analyze_notch_performance (specification SpecNotch)        *)
(***************************************************************************)
\* the tracks the loop over tracks.items() has visited
Visited == {order[k] : k \in 1..an_i}
Reported(id) == \E k \in 1..Len(report) : report[k].id = id
EntryOf(id) == report[CHOOSE k \in 1..Len(report) : report[k].id = id]
InLines(e, tag) == \E k \in 1..Len(e.lines) : e.lines[k] = tag

\* C7: with start_scan 60 and end_scan 80, every sample of every track is in
\* exactly one of the windows pre, during and post.
C7_WindowsPartition ==
    /\ notch_start_scan = 60 /\ notch_end_scan = 80
    /\ \A id \in DOMAIN tracks :
          LET t == tracks[id]
          IN  /\ PreIdx(t) \cup DuringIdx(t) \cup PostIdx(t) = 1..Len(t.scans)
              /\ PreIdx(t) \cap DuringIdx(t) = {}
              /\ PreIdx(t) \cap PostIdx(t) = {}
              /\ DuringIdx(t) \cap PostIdx(t) = {}
    /\ \A k \in 1..Len(report) :
          LET e == report[k]
              n == Len(tracks[e.id].scans)
          IN  /\ e.pre \cup e.during \cup e.post = 1..n
              /\ Cardinality(e.pre) + Cardinality(e.during) + Cardinality(e.post) = n

C7_Witness ==
    /\ an_pc = "done"
    /\ \E k \in 1..Len(report) :
          /\ report[k].pre # {} /\ report[k].during # {} /\ report[k].post # {}
          /\ \E j \in report[k].during : tracks[report[k].id].scans[j] = 80
          /\ \E j \in report[k].during : tracks[report[k].id].scans[j] = 60

\* C8: a track is reported if and only if it has at least 5 samples and at
\* least one sample before scan 60; any other track produces no output, and a
\* reported track produces one entry.
C8_ReportedIff ==
    /\ \A id \in Visited :
          Reported(id) <=>
              /\ Len(tracks[id].scans) >= 5
              /\ \E k \in 1..Len(tracks[id].scans) : tracks[id].scans[k] < 60
    /\ \A k \in 1..Len(report) : report[k].id \in Visited
    /\ \A j, k \in 1..Len(report) : report[j].id = report[k].id => j = k

C8_Witness ==
    /\ an_pc = "done"
    /\ \E id \in Visited :
          /\ Reported(id)
          /\ Len(tracks[id].scans) = 5
          /\ Cardinality({k \in 1..5 : tracks[id].scans[k] < 60}) = 1
    /\ \E id \in Visited : ~Reported(id)

\* C9: a reported track is LOST exactly when it has no sample at scans 60..80,
\* NOT RECOVERED exactly when it has no sample after scan 80, and neither line
\* is printed exactly when it has samples in both windows.
C9_Outcome ==
    \A k \in 1..Len(report) :
        LET e == report[k]
            sc == tracks[e.id].scans
            hasDuring == \E j \in 1..Len(sc) : 60 <= sc[j] /\ sc[j] <= 80
            hasPost == \E j \in 1..Len(sc) : sc[j] > 80
        IN  /\ InLines(e, "LOST") <=> ~hasDuring
            /\ InLines(e, "NOT RECOVERED") <=> ~hasPost
            /\ (~InLines(e, "LOST") /\ ~InLines(e, "NOT RECOVERED")) <=> (hasDuring /\ hasPost)
            /\ InLines(e, "During notch quality") <=> hasDuring
            /\ InLines(e, "Post-notch quality") <=> hasPost

C9_Witness ==
    /\ an_pc = "done"
    /\ \E k \in 1..Len(report) :
          /\ InLines(report[k], "LOST")
          /\ InLines(report[k], "NOT RECOVERED")
          /\ Len(tracks[report[k].id].scans) >= 5

(***************************************************************************)
(* Further claims about load_tracks (specification Spec)                   *)
(***************************************************************************)
\* a TRK line with an integer id, R and D field and no token that begins
\* with 'Q='
NoQToken(i) ==
    LET parts == PartsOf[i]
    IN  /\ parts # <<>> /\ parts[1] = kTRK
        /\ Len(parts) >= 4
        /\ PyInt(parts[2]).ok /\ FieldInt(parts[3]).ok /\ FieldInt(parts[4]).ok
        /\ \A k \in 1..Len(parts) : ~StartsWith(parts[k], <<"Q", "=">>)

\* the id a TRK line names
IdOf(i) == PyInt(PartsOf[i][2]).val

\* the number of quality values recorded for track id
QualitiesOf(trks, id) == IF id \in DOMAIN trks THEN Len(trks[id].qualities) ELSE 0

\* C11: a TRK line that carries no token beginning with 'Q=', whatever its
\* token count and whatever preceded it, appends one sample of quality 0 and
\* the parse goes on to the next line.
C11_MissingQualityIsZero ==
    [][(pc = "loop" /\ Len(log') = Len(log) + 1 /\ NoQToken(Last(log')))
          => LET id == IdOf(Last(log'))
             IN  /\ pc' = "loop"
                 /\ QualitiesOf(tracks', id) = QualitiesOf(tracks, id) + 1
                 /\ Last(tracks'[id].qualities) = 0]_vars

\* the sample a TRK step recorded for track id: the last element of each of
\* the four series
LastSample(trks, id) ==
    [range |-> Last(trks[id].range_bins), doppler |-> Last(trks[id].doppler_bins),
     quality |-> Last(trks[id].qualities), scan |-> Last(trks[id].scans)]

\* a TRK line has been accepted for track id: the parse goes on and each of
\* the four series has an element more than in trks
Accepted(st, trks, id) ==
    /\ st.pc = "loop"
    /\ id \in DOMAIN st.tracks
    /\ LET n == IF id \in DOMAIN trks THEN Len(trks[id].scans) ELSE 0
       IN  /\ Len(st.tracks[id].range_bins) = n + 1
           /\ Len(st.tracks[id].doppler_bins) = n + 1
           /\ Len(st.tracks[id].qualities) = n + 1
           /\ Len(st.tracks[id].scans) = n + 1

\* the state after the step, as a record
LoadStateAfter == [tracks |-> tracks', order |-> order', scan_counts |-> scan_counts',
                   current_scan |-> current_scan', q |-> q', pc |-> pc', exc |-> exc']

\* C12: the short form TRK 1 R=400 D=68 Q=10 and the long form
\* TRK 1 R=400 D=68 VR=-12 Q=10 S=1 are both accepted, and from any state of the
\* parse they record the same range, doppler, quality and scan; the quality is
\* the value of the Q= token, 10.
C12_BothLayouts ==
    [][(pc = "loop" /\ Len(log') = Len(log) + 1
            /\ Last(log') \in {Ix(L_Trk1a), Ix(L_Trk1Long)})
          => LET other == IF Last(log') = Ix(L_Trk1a) THEN Ix(L_Trk1Long) ELSE Ix(L_Trk1a)
                 alt == StepLine(variant, LoadState, FieldsOf[other])
             IN  /\ Accepted(LoadStateAfter, tracks, 1)
                 /\ Accepted(alt, tracks, 1)
                 /\ LastSample(tracks', 1) = LastSample(alt.tracks, 1)
                 /\ LastSample(tracks', 1).quality = 10]_vars

(***************************************************************************)
(* Claims about repeated calls (specification SpecRuns)                    *)
(***************************************************************************)
\* C13: a call that ends on the same input as the call before it has the
\* same result (tracks, scan_counts, grid, and the same exception if any); and
\* every call, whatever the call before it read, starts with an empty registry,
\* an empty scan_counts, scan counter 0 and an all-zero grid.
C13_Deterministic ==
    /\ (RunFinished /\ prev.fn = CurrentRun.fn /\ prev.input = CurrentRun.input)
          => prev.result = CurrentRun.result
    /\ (pc = "loop" /\ log = <<>>)
          => tracks = <<>> /\ scan_counts = <<>> /\ current_scan = 0
    /\ (det_pc \in {"load", "fold"} /\ fold_i = 0) => rdm = <<>>
    /\ (det_pc = "load" /\ det_log = <<>>) => detections = <<>>

C13_Witness ==
    /\ prev.fn = "load_tracks"
    /\ prev.input = <<"model", <<Ix(L_Trk1a), Ix(L_Scan6)>> >>
    /\ prev.result.tracks # <<>>
    /\ pc = "returned"
    /\ variant = "model"
    /\ log = <<Ix(L_Trk1a), Ix(L_Scan6)>>
    /\ tracks = prev.result.tracks
    /\ scan_counts = <<6>>

(***************************************************************************)
(* Claims about chunked grids (specification SpecChunk)                    *)
(***************************************************************************)
\* the position (from 0) of the first row of run j, and the position after its
\* last row
FirstPos(j) == BlockLen(SubSeq(blocks, 1, j - 1))
EndPos(j) == FirstPos(j) + blocks[j].n

\* the flat positions k*C <= i < min((k+1)*C, number of detections) of chunk k
WindowLo(k) == k * N_RANGE * N_DOPPLER
WindowHi(k) == Min((k + 1) * N_RANGE * N_DOPPLER, BlockLen(blocks))

\* run j has a row at a position of the selected window
Selected(j) ==
    IF scan_idx.some
    THEN FirstPos(j) < WindowHi(scan_idx.k) /\ EndPos(j) > WindowLo(scan_idx.k)
    ELSE TRUE

\* the max-hold fold, from the all-zero grid, of the selected rows at cell [d][r]
ExpectedCell(d, r) ==
    SetMax({0} \cup {blocks[j].row[3] :
                j \in {j2 \in 1..Len(blocks) :
                          /\ Selected(j2)
                          /\ blocks[j2].row[1] = r /\ blocks[j2].row[2] = d
                          /\ InGrid(r, d, N_RANGE, N_DOPPLER)}})

\* the cells a row of the array names, in or out of the grid
NamedCells == {<<blocks[j].row[2], blocks[j].row[1]>> : j \in 1..Len(blocks)}

\* the number of rows of chunk k
ChunkRowsCount(k) ==
    BlockLen(SliceBlocks(blocks, k * ChunkSize, Min(k * ChunkSize + ChunkSize, BlockLen(blocks))))

RECURSIVE SumChunks(_)
SumChunks(k) == IF k < 0 THEN 0 ELSE ChunkRowsCount(k) + SumChunks(k - 1)

\* C16: with scan_idx None the grid is the max-hold fold of all detections; with
\* scan_idx = k it is the max-hold fold of exactly the detections at positions
\* k*C <= i < min((k+1)*C, n); chunk k has max(0, min((k+1)*C, n) - k*C) rows,
\* so the chunks are disjoint and together have n rows; a k past the end of the
\* data gives the all-zero grid.
C16_ChunkFold ==
    /\ det_pc = "done" =>
          /\ \A idx \in DOMAIN rdm \cup NamedCells :
                Cell(rdm, idx) = ExpectedCell(idx[1], idx[2])
          /\ (scan_idx.some /\ WindowLo(scan_idx.k) >= BlockLen(blocks)) => rdm = <<>>
    /\ \A k \in 0..Len(blocks) :
          ChunkRowsCount(k) = IF WindowHi(k) > WindowLo(k) THEN WindowHi(k) - WindowLo(k) ELSE 0
    /\ SumChunks(Len(blocks)) = BlockLen(blocks)

C16_Witness ==
    /\ det_pc = "done"
    /\ scan_idx = Some(1)
    /\ Len(blocks) = 2
    /\ blocks[1] = [row |-> <<100, 5, 50>>, n |-> N_RANGE * N_DOPPLER]
    /\ blocks[2] = [row |-> <<100, 5, 30>>, n |-> 1]
    /\ Cell(rdm, <<5, 100>>) = 30

(***************************************************************************)
(* Further claims about analyze_notch_performance (specification SpecNotch) *)
(***************************************************************************)
\* a recorded Doppler bin as the fraction BinNum / BinDen
BinNum(d) == IF variant = "model" THEN d ELSE d.num
BinDen(d) == IF variant = "model" THEN 1 ELSE d.den

\* velocity_mps = (bin - N_DOPPLER/2) * PRF[0] / N_DOPPLER * WAVELENGTH_M / 2
\* as the fraction MpsNum / MpsDen, MpsDen > 0
MpsNum(d) == (2 * BinNum(d) - N_DOPPLER * BinDen(d)) * PRF0 * WAVELENGTH_MM
MpsDen(d) == 2 * BinDen(d) * N_DOPPLER * 1000 * 2

\* the samples of a track at scans 60..80
DuringSamples(trk) == {j \in 1..Len(trk.scans) : 60 <= trk.scans[j] /\ trk.scans[j] <= 80}

\* C14: a reported track has the 'entered notch region' line if and only if
\* some sample at scans 60..80 has |velocity_mps| < 20, strictly; samples before
\* scan 60 or after scan 80 never raise it.
C14_NotchFlag ==
    \A k \in 1..Len(report) :
        LET e == report[k]
            trk == tracks[e.id]
        IN  InLines(e, "entered MTI notch")
                <=> \E j \in DuringSamples(trk) :
                        Abs(MpsNum(trk.doppler_bins[j])) < 20 * MpsDen(trk.doppler_bins[j])

\* a reported track with a slow and a fast sample in the window: the line is there
C14_Witness ==
    /\ an_pc = "done"
    /\ \E k \in 1..Len(report) :
          LET trk == tracks[report[k].id]
          IN  /\ InLines(report[k], "entered MTI notch")
              /\ \E j \in DuringSamples(trk) :
                    Abs(MpsNum(trk.doppler_bins[j])) < 20 * MpsDen(trk.doppler_bins[j])
              /\ \E j \in DuringSamples(trk) :
                    Abs(MpsNum(trk.doppler_bins[j])) > 20 * MpsDen(trk.doppler_bins[j])
              /\ \E j \in 1..Len(trk.scans) : trk.scans[j] > 80

RECURSIVE SumAbsMps(_, _)
\* the sum of |MpsNum| over the samples S of a track
SumAbsMps(trk, S) ==
    IF S = {} THEN 0
    ELSE LET j == CHOOSE x \in S : TRUE
         IN  Abs(MpsNum(trk.doppler_bins[j])) + SumAbsMps(trk, S \ {j})

\* the denominator the samples of the running copy share, and the common factor
\* of the denominators, divided out before the comparison
CommonMpsDen == IF variant = "model" THEN MpsDen(0) ELSE MpsDen(Q2(0))
DenUnit == 2 * N_DOPPLER * 1000 * 2

\* C15: for a reported track with a sample at scans 60..80, the velocity figure
\* of the during window is the mean of |velocity_mps| over those samples.
C15_MeanAbsVelocity ==
    \A k \in 1..Len(report) :
        LET e == report[k]
            trk == tracks[e.id]
            S == DuringSamples(trk)
        IN  S # {} =>
              /\ e.during_velocity.n = Cardinality(S)
              /\ e.during_velocity.sum * (CommonMpsDen \div DenUnit)
                    = SumAbsMps(trk, S) * (VelDen \div DenUnit)

(***************************************************************************)
(* Frame and growth claims about load_tracks (specification Spec)          *)
(***************************************************************************)
\* the step reads one more line
ReadsLine == pc = "loop" /\ Len(log') = Len(log) + 1

\* an empty or whitespace-only line
WhitespaceOnly(i) == \A k \in 1..Len(LineBook[i]) : LineBook[i][k] \in {" ", "\t", "\n"}

\* the first token of a line that has one
FirstToken(i) == PartsOf[i][1]

\* a non-empty line whose first token is neither TRK nor SCAN_END
ForeignLine(i) == ~WhitespaceOnly(i) /\ FirstToken(i) \notin {kTRK, kSCAN_END}

\* C17: an empty or whitespace-only line, and a non-empty line whose first
\* token is neither TRK nor SCAN_END, leave the parse state as it was: tracks,
\* scan_counts and the scan counter are unchanged and no error is raised.
C17_IgnoredLines ==
    [][(ReadsLine /\ (WhitespaceOnly(Last(log')) \/ ForeignLine(Last(log'))))
          => /\ tracks' = tracks
             /\ order' = order
             /\ scan_counts' = scan_counts
             /\ current_scan' = current_scan
             /\ q' = q
             /\ pc' = "loop"
             /\ exc' = ""]_vars

C17_Witness ==
    /\ pc = "returned"
    /\ log = <<Ix(L_Trk1a), Ix(L_Blank), Ix(L_Other)>>
    /\ DOMAIN tracks = {1}
    /\ tracks[1].range_bins = <<400>>
    /\ scan_counts = <<>>
    /\ current_scan = 0

IsPrefix(a, b) == Len(a) <= Len(b) /\ SubSeq(b, 1, Len(a)) = a

\* every series of t2 starts with the series of t
Grown(t, t2) ==
    /\ t2.id = t.id
    /\ IsPrefix(t.range_bins, t2.range_bins)
    /\ IsPrefix(t.doppler_bins, t2.doppler_bins)
    /\ IsPrefix(t.velocities, t2.velocities)
    /\ IsPrefix(t.qualities, t2.qualities)
    /\ IsPrefix(t.scans, t2.scans)

\* the id a TRK line names, if its second token is an integer
NamedIds(i) ==
    IF Len(PartsOf[i]) >= 2 /\ PyInt(PartsOf[i][2]).ok THEN {PyInt(PartsOf[i][2]).val} ELSE {}

\* the number of SCAN_END lines among the lines l
ScanEndsIn(l) ==
    Cardinality({p \in 1..Len(l) : ~WhitespaceOnly(l[p]) /\ FirstToken(l[p]) = kSCAN_END})

\* C18: no step removes a track or removes, reorders or rewrites a recorded
\* sample; a SCAN_END line changes no track; a TRK line changes only the track
\* it names; and every scans series is non-decreasing with values at most the
\* number of SCAN_END lines seen so far.
C18_AppendOnly ==
    [][/\ DOMAIN tracks \subseteq DOMAIN tracks'
       /\ \A id \in DOMAIN tracks : Grown(tracks[id], tracks'[id])
       /\ (ReadsLine /\ ~WhitespaceOnly(Last(log')) /\ FirstToken(Last(log')) = kSCAN_END)
             => tracks' = tracks
       /\ (ReadsLine /\ ~WhitespaceOnly(Last(log')) /\ FirstToken(Last(log')) = kTRK)
             => \A id \in DOMAIN tracks' \ NamedIds(Last(log')) :
                    id \in DOMAIN tracks /\ tracks'[id] = tracks[id]
       /\ \A id \in DOMAIN tracks' :
             LET sc == tracks'[id].scans
             IN  /\ \A j \in 1..Len(sc) : 0 <= sc[j] /\ sc[j] <= ScanEndsIn(log')
                 /\ \A j \in 1..(Len(sc) - 1) : sc[j] <= sc[j + 1]]_vars

C18_Witness ==
    /\ pc = "returned"
    /\ variant = "model"
    /\ log = <<Ix(L_Trk1a), Ix(L_Scan6), Ix(L_Trk2NoQ4)>>
    /\ DOMAIN tracks = {1, 2}
    /\ tracks[1].scans = <<0>>
    /\ tracks[2].scans = <<1>>

====
